---- MODULE Spec2Model ----
(***************************************************************************)
(* webcam-reso: the Detector inference loop (detect.js, kept here as       *)
(* src/unnamed/part_000 lines 26-194) and the camera stream controller of  *)
(* src/src/main.js.                                                        *)
(*                                                                         *)
(* JavaScript runs on one thread.  A step of this model is one macrotask:  *)
(* an event handler, a requestAnimationFrame / setTimeout callback, or the *)
(* continuation that runs when a platform promise (model.executeAsync,     *)
(* getUserMedia, applyConstraints, video.play) settles, each together with *)
(* the microtasks it queues.  An await of an already settled promise       *)
(* (inferOnce returning early or throwing before its first real await) is  *)
(* a microtask, so it belongs to the step that reached it.                 *)
(***************************************************************************)
EXTENDS Integers, FiniteSets, Sequences

\* ------------------------------------------------------------------ bounds
\* Number of requestAnimationFrame / setTimeout handles the model hands out.
MaxHandles == 4
\* Largest number of tensors model.executeAsync resolves with.
MaxOutputs == 5
\* Number of MediaStreams getUserMedia hands out.
MaxStreams == 2
\* Number of startStream / applyResolution invocations (Start clicks and
\* resolution changes).
MaxCalls == 2
\* Number of handles in use at a time when handles are reused.
MaxReused == 2
\* Largest number of detections in one drawBoundingBoxes call.
MaxDetections == 2

\* ------------------------------------------------------- program constants
\* HTMLMediaElement.HAVE_CURRENT_DATA: inferOnce needs readyState >= 2.
HaveCurrentData == 2
\* HTMLMediaElement.HAVE_ENOUGH_DATA, the largest readyState.
MaxReadyState == 4
\* Highest output index inferOnce reads (outputs[4]).
ScoresIndex == 4

\* drawBoundingBoxes, part_000:155 -- const threshold = 0.7, in thousandths
Threshold == 700

\* null for a handle, a tick or a stream
Null == 0

VARIABLES
    \* ---- Detector (constructor arguments)
    useRAF,         \* opts.useRAF
    video,          \* TRUE iff this.video is an element
    canvasContext,  \* TRUE iff this.canvasContext is a context
    reuse,          \* TRUE iff a handle that is neither pending nor the name
                    \* of a tick in flight may be handed out again
    readyState,     \* this.video.readyState, 0..4
    \* ---- Detector (fields)
    _running,       \* this._running
    _rafId,         \* this._rafId   (Null or a handle)
    _timerId,       \* this._timerId (Null or a handle)
    \* ---- Detector (environment)
    nextId,         \* next handle requestAnimationFrame/setTimeout returns
    pending,        \* handles of callbacks scheduled, not fired or cancelled
    inflight,       \* ticks awaiting model.executeAsync, named by their handle
    live,           \* undisposed tensors: <<tick, 0>> input, <<tick, i>> output
    surface,        \* tick whose drawBoundingBoxes last cleared the canvas
    uncaught,       \* TRUE once a rejection has escaped loop()
    \* ---- Detector (observation)
    stoppedDuring,  \* in-flight ticks during which stop() was called
    lastOp,         \* the step just taken
    prevOp,         \* the step before it
    \* ---- main.js (module state and the video element)
    stream,         \* let stream (Null or a MediaStream)
    srcObject,      \* els.video.srcObject
    status,         \* els.status.textContent, by kind of message
    \* ---- main.js (environment)
    nextStream,     \* next MediaStream getUserMedia resolves with
    liveTracks,     \* MediaStreams whose tracks have not been stopped
    calls,          \* invocations of startStream / applyResolution, in order
    canvas,         \* <<els.canvas.width, els.canvas.height>>
    ink,            \* what is drawn on the canvas, in drawing order
    modelLoaded,    \* initModel has returned: model is set, the toggle listens
    checked,        \* inferToggle.checked
    \* ---- main.js (observation)
    batch,          \* arguments of the last drawBoundingBoxes call
    canvasOps,      \* canvas calls that call made, in order
    stopAsked,      \* a Stop click or pagehide came, and no Start click or
                    \* resolution change since
    lastEvent       \* the step just taken

\* what is fixed from the start
config == <<useRAF, video, canvasContext, reuse>>

detVars == <<config, readyState, _running, _rafId, _timerId, nextId, pending,
             inflight, live, surface, uncaught, stoppedDuring, lastOp, prevOp>>

\* the overlay canvas and what was last drawn on it
overlay == <<canvas, ink, batch, canvasOps>>

\* the inference toggle
toggle == <<modelLoaded, checked>>

streamVars == <<stream, srcObject, status, nextStream, liveTracks, calls,
                stopAsked, lastEvent, overlay, toggle>>

vars == <<detVars, streamVars>>

\* ---------------------------------------------------------------- Detector

\* constructor, part_000:38-55
DetectorInit ==
    /\ useRAF \in BOOLEAN
    /\ video \in BOOLEAN
    /\ canvasContext \in BOOLEAN
    /\ reuse \in BOOLEAN
    /\ readyState = 0
    /\ _running = FALSE
    /\ _rafId = Null
    /\ _timerId = Null
    /\ nextId = 1
    /\ pending = {}
    /\ inflight = {}
    /\ live = {}
    /\ surface = Null
    /\ uncaught = FALSE
    /\ stoppedDuring = {}
    /\ lastOp = "new"
    /\ prevOp = "new"

\* the operation a step performs, kept for the properties below
Log(op) ==
    /\ lastOp' = op
    /\ prevOp' = lastOp

\* handles in 1..MaxReused that name no pending callback (p the pending
\* callbacks) and no tick in flight once the step is taken, and that neither
\* _rafId nor _timerId holds
FreeHandles(p) == (1..MaxReused) \ (p \cup inflight' \cup {_rafId, _timerId})

\* the handle requestAnimationFrame / setTimeout returns next: a new one, or
\* with reuse the least free one, a handle nothing refers to any more
NewHandle(p) ==
    IF reuse
      THEN CHOOSE h \in FreeHandles(p) : \A g \in FreeHandles(p) : h <= g
      ELSE nextId

\* the model hands out MaxHandles handles and no more; with reuse, no more
\* at a time
CanSchedule(p) == IF reuse THEN FreeHandles(p) # {} ELSE nextId <= MaxHandles

\* part_000:73-77 and 80-84 -- this._rafId = requestAnimationFrame(loop) or
\* this._timerId = setTimeout(loop, intervalMs), p the pending callbacks
Schedule(p) ==
    /\ pending' = p \cup {NewHandle(p)}
    /\ nextId' = IF reuse THEN nextId ELSE nextId + 1
    /\ IF useRAF
         THEN _rafId' = NewHandle(p) /\ UNCHANGED _timerId
         ELSE _timerId' = NewHandle(p) /\ UNCHANGED _rafId

\* loop() returns without scheduling
NoSchedule(p) ==
    /\ pending' = p
    /\ UNCHANGED <<nextId, _rafId, _timerId>>

\* start() without line 62: a second call schedules again
StartUnguarded ==
    /\ Log("start")
    /\ UNCHANGED <<config, readyState, inflight, live,
                   surface, uncaught, stoppedDuring, streamVars>>
    /\ CanSchedule(pending)
    /\ _running' = TRUE
    /\ Schedule(pending)

\* start(), part_000:61-85 -- what the call does to the Detector
StartCall ==
    /\ Log("start")
    /\ UNCHANGED <<config, readyState, inflight, live, surface,
                   uncaught, stoppedDuring>>
    /\ IF _running
         THEN UNCHANGED <<_running, nextId, pending, _rafId, _timerId>>
         ELSE /\ CanSchedule(pending)
              /\ _running' = TRUE
              /\ Schedule(pending)

\* start(), part_000:61-85
Start == StartCall /\ UNCHANGED streamVars

\* stop(), part_000:87-97 -- what the call does to the Detector
StopCall ==
    /\ Log("stop")
    /\ _running' = FALSE
    /\ pending' = pending \ {_rafId, _timerId}
    /\ _rafId' = Null
    /\ _timerId' = Null
    /\ stoppedDuring' = inflight
    /\ UNCHANGED <<config, readyState, nextId, inflight, live,
                   surface, uncaught>>

\* stop(), part_000:87-97
Stop == StopCall /\ UNCHANGED streamVars

\* the video element loads, stalls or is reset: its readyState changes
\* (HTMLMediaElement, read at part_000:105)
VideoState ==
    /\ \E r \in 0..MaxReadyState : r # readyState /\ readyState' = r
    /\ UNCHANGED <<config, _running, _rafId, _timerId,
                   nextId, pending, inflight, live, surface, uncaught,
                   stoppedDuring, lastOp, prevOp, streamVars>>

\* loop() without line 66
LoopRunsUnchecked == TRUE

\* loop(), part_000:66 -- if (!this._running) return;
LoopRuns == _running

\* line 105 testing readyState < 1 (HAVE_METADATA taken for "has a frame")
NotReadyMetadataOnly == ~video \/ readyState < 1

\* inferOnce, part_000:105 --
\* if (!this.video || this.video.readyState < 2) return;
NotReady == ~video \/ readyState < HaveCurrentData

\* the tensors of tick t: its input and the n outputs executeAsync resolved with
InputOf(t) == {<<t, 0>>}
OutputsOf(t, n) == {<<t, i>> : i \in 1..n}

\* inferOnce, part_000:121-125 -- outputs[1], outputs[4], outputs[0] are read;
\* a lone Tensor or a short array makes arraySync throw a TypeError
DecodeOk(isArray, n) == isArray /\ n > ScoresIndex

\* a finally block that disposes the input alone
FinallyInputOnly(l, t, outs) == l \ InputOf(t)

\* inferOnce, part_000:129-136 -- the finally block, applied to the live
\* tensors l: input.dispose(), then every output (outs = {} when outputs is
\* still undefined)
Finally(l, t, outs) == (l \ InputOf(t)) \ outs

\* loop() without its try/catch: a throw of inferOnce leaves loop()
LoopCatchesNothing(threw) == ~threw

\* loop(), part_000:67-71 -- try { await this.inferOnce() } catch (e) { warn }:
\* whether control reaches line 72 when inferOnce threw or not
LoopCatches(threw) == TRUE

\* loop() without line 72: reschedules whatever the flag says
ResumeUnchecked(p, threw) ==
    /\ UNCHANGED uncaught
    /\ CanSchedule(p)
    /\ Schedule(p)

\* loop(), part_000:72-77 -- what follows the await, p the pending callbacks
Resume(p, threw) ==
    IF LoopCatches(threw)
      THEN /\ UNCHANGED uncaught
           /\ IF _running
                THEN CanSchedule(p) /\ Schedule(p)
                ELSE NoSchedule(p)
      ELSE /\ uncaught' = TRUE
           /\ NoSchedule(p)

\* a callback fires after stop(): loop() returns at line 66
FireStopped(h) ==
    /\ ~LoopRuns
    /\ Log("stale")
    /\ pending' = pending \ {h}
    /\ UNCHANGED <<config, readyState, _running, _rafId, _timerId,
                   nextId, inflight, live, surface, uncaught, stoppedDuring,
                   streamVars>>

\* a callback fires, the video has no frame: inferOnce returns at line 105
TickNotReady(h) ==
    /\ LoopRuns
    /\ NotReady
    /\ Log("notready")
    /\ UNCHANGED <<config, readyState, _running, inflight, live,
                   surface, stoppedDuring, streamVars>>
    /\ Resume(pending \ {h}, FALSE)

\* a callback fires, tf.tidy (drawImage / fromPixels) throws: lines 108-116;
\* tidy disposes what it made, the try block is never entered
TickPrepFails(h) ==
    /\ LoopRuns
    /\ ~NotReady
    /\ Log("prepfail")
    /\ UNCHANGED <<config, readyState, _running, inflight, live,
                   surface, stoppedDuring, streamVars>>
    /\ Resume(pending \ {h}, TRUE)

\* a callback fires, the input tensor is made and model.executeAsync is
\* called: lines 108-120; the tick now awaits the model
TickBegin(h) ==
    /\ LoopRuns
    /\ ~NotReady
    /\ Log("begin")
    /\ pending' = pending \ {h}
    /\ live' = live \cup InputOf(h)
    /\ inflight' = inflight \cup {h}
    /\ UNCHANGED <<config, readyState, _running, _rafId, _timerId,
                   nextId, surface, uncaught, stoppedDuring, streamVars>>

\* model.executeAsync rejects: outputs stays undefined
TickRejects(t) ==
    /\ Log("reject")
    /\ inflight' = inflight \ {t}
    /\ stoppedDuring' = stoppedDuring \ {t}
    /\ live' = Finally(live, t, {})
    /\ Resume(pending, TRUE)
    /\ UNCHANGED <<config, readyState, _running, surface,
                   streamVars>>

\* model.executeAsync resolves with something lines 121-125 cannot decode
TickDecodeFails(t) ==
    /\ \E isArray \in BOOLEAN, n \in 1..MaxOutputs :
          /\ isArray \/ n = 1
          /\ ~DecodeOk(isArray, n)
          /\ live' = Finally(live \cup OutputsOf(t, n), t, OutputsOf(t, n))
    /\ Log("decodefail")
    /\ inflight' = inflight \ {t}
    /\ stoppedDuring' = stoppedDuring \ {t}
    /\ Resume(pending, TRUE)
    /\ UNCHANGED <<config, readyState, _running, surface,
                   streamVars>>

\* drawBoundingBoxes, part_000:146-152 -- nothing without a context, else
\* the canvas is cleared for tick t's batch
Cleared(t) == IF canvasContext THEN t ELSE surface

\* the outputs decode, drawBoundingBoxes clears the canvas and then throws
\* (scores.forEach over something that is no array, a missing box)
TickDrawFails(t) ==
    /\ canvasContext
    /\ \E n \in 1..MaxOutputs :
          /\ DecodeOk(TRUE, n)
          /\ live' = Finally(live \cup OutputsOf(t, n), t, OutputsOf(t, n))
    /\ Log("drawfail")
    /\ inflight' = inflight \ {t}
    /\ stoppedDuring' = stoppedDuring \ {t}
    /\ surface' = Cleared(t)
    /\ Resume(pending, TRUE)
    /\ UNCHANGED <<config, readyState, _running,
                   streamVars>>

\* the outputs decode and drawBoundingBoxes returns
TickSucceeds(t) ==
    /\ \E n \in 1..MaxOutputs :
          /\ DecodeOk(TRUE, n)
          /\ live' = Finally(live \cup OutputsOf(t, n), t, OutputsOf(t, n))
    /\ Log("success")
    /\ inflight' = inflight \ {t}
    /\ stoppedDuring' = stoppedDuring \ {t}
    /\ surface' = Cleared(t)
    /\ Resume(pending, FALSE)
    /\ UNCHANGED <<config, readyState, _running,
                   streamVars>>

DetectorNext ==
    \/ VideoState
    \/ Start
    \/ Stop
    \/ \E h \in pending : FireStopped(h)
    \/ \E h \in pending : TickNotReady(h)
    \/ \E h \in pending : TickPrepFails(h)
    \/ \E h \in pending : TickBegin(h)
    \/ \E t \in inflight : TickRejects(t)
    \/ \E t \in inflight : TickDecodeFails(t)
    \/ \E t \in inflight : TickDrawFails(t)
    \/ \E t \in inflight : TickSucceeds(t)

\* ----------------------------------------------------------------- main.js

\* width and height of a canvas element that was given none
DefaultCanvas == <<300, 150>>

\* sizes els.video.getBoundingClientRect() reports (main.js:134), landscape
\* and portrait
Sizes == {<<640, 480>>, <<480, 640>>}

\* no drawBoundingBoxes call since the canvas was last reset
NoBatch == [boxes |-> <<>>, scores |-> <<>>, classes |-> <<>>, called |-> FALSE]

\* main.js:19-20 and the page as loaded
StreamInit ==
    /\ stream = Null
    /\ srcObject = Null
    /\ status = "none"
    /\ nextStream = 1
    /\ liveTracks = {}
    /\ calls = <<>>
    /\ stopAsked = FALSE
    /\ lastEvent = "load"
    /\ canvas = DefaultCanvas
    /\ ink = <<>>
    /\ batch = NoBatch
    /\ canvasOps = <<>>
    /\ modelLoaded = FALSE
    /\ checked = FALSE

\* an invocation at its await pc; track is the track applyResolution took
\* from stream at line 83 (named by its stream)
Call(pc, track) == [pc |-> pc, track |-> track]

At(i, pcs) == i \in 1..Len(calls) /\ calls[i].pc \in pcs

Goto(i, pc) == calls' = [calls EXCEPT ![i].pc = pc]

\* stopStream, main.js:109-114 -- the tracks left running
TracksAfterStop == IF stream # Null THEN liveTracks \ {stream} ELSE liveTracks

\* stopStream, main.js:109-114
StopStream ==
    /\ liveTracks' = TracksAfterStop
    /\ stream' = Null

\* updateInfo, main.js:116-125 -- the message it logs
InfoStatus == IF stream = Null THEN "Stopped." ELSE "Actual"

\* updateCanvasSize, main.js:131-139 -- the canvas takes the size of the
\* video's box; assigning canvas.width / height resets its bitmap
UpdateCanvasSize ==
    /\ \E r \in Sizes : canvas' = r
    /\ ink' = <<>>
    /\ batch' = NoBatch
    /\ canvasOps' = <<>>

\* updateInfo, main.js:116-129
UpdateInfo ==
    /\ status' = InfoStatus
    /\ IF stream = Null
         THEN UNCHANGED overlay
         ELSE UpdateCanvasSize

\* Start click: startStream up to its first await, main.js:47-54
ClickStart ==
    /\ Len(calls) < MaxCalls
    /\ StopStream
    /\ calls' = Append(calls, Call("gum_ideal", Null))
    /\ stopAsked' = FALSE
    /\ lastEvent' = "start"
    /\ UNCHANGED <<srcObject, status, nextStream, detVars, toggle, overlay>>

\* Stop click, main.js:142-145
ClickStop ==
    /\ StopStream
    /\ status' = "Stopped."
    /\ stopAsked' = TRUE
    /\ lastEvent' = "stop"
    /\ UNCHANGED <<srcObject, nextStream, calls, detVars, toggle, overlay>>

\* pagehide, main.js:157
PageHide ==
    /\ StopStream
    /\ stopAsked' = TRUE
    /\ lastEvent' = "pagehide"
    /\ UNCHANGED <<srcObject, status, nextStream, calls, detVars, toggle, overlay>>

\* a resolution change that always stops the stream and acquires another
ChangeAlwaysRestarts ==
    /\ Len(calls) < MaxCalls
    /\ StopStream
    /\ calls' = Append(calls, Call("gum_ideal", stream))
    /\ stopAsked' = FALSE
    /\ lastEvent' = "change"
    /\ UNCHANGED <<srcObject, status, nextStream, detVars, toggle, overlay>>

\* resolution change: applyResolution up to its first await, main.js:80-91
\* (through startStream when no stream is held)
ChangeResolution ==
    /\ Len(calls) < MaxCalls
    /\ IF stream = Null
         THEN /\ StopStream
              /\ calls' = Append(calls, Call("gum_ideal", Null))
         ELSE /\ calls' = Append(calls, Call("ac_ideal", stream))
              /\ UNCHANGED <<stream, liveTracks>>
    /\ stopAsked' = FALSE
    /\ lastEvent' = "change"
    /\ UNCHANGED <<srcObject, status, nextStream, detVars, toggle, overlay>>

\* getUserMedia resolves (line 54 or line 58): stream = ..., line 64, and the
\* wait for loadedmetadata begins
GumResolves(i) ==
    /\ At(i, {"gum_ideal", "gum_fallback"})
    /\ nextStream <= MaxStreams
    /\ stream' = nextStream
    /\ srcObject' = nextStream
    /\ liveTracks' = liveTracks \cup {nextStream}
    /\ nextStream' = nextStream + 1
    /\ Goto(i, "metadata")
    /\ lastEvent' = "acquired"
    /\ UNCHANGED <<status, stopAsked, detVars, toggle, overlay>>

\* getUserMedia(constraints) rejects: the retry without a size, main.js:55-61
GumIdealRejects(i) ==
    /\ At(i, {"gum_ideal"})
    /\ Goto(i, "gum_fallback")
    /\ lastEvent' = "retry"
    /\ UNCHANGED <<stream, srcObject, status, nextStream, liveTracks,
                   stopAsked, detVars, toggle, overlay>>

\* the retry rejects too: the error leaves startStream
GumFallbackRejects(i) ==
    /\ At(i, {"gum_fallback"})
    /\ Goto(i, "failed")
    /\ lastEvent' = "failed"
    /\ UNCHANGED <<stream, srcObject, status, nextStream, liveTracks,
                   stopAsked, detVars, toggle, overlay>>

\* loadedmetadata (or readyState >= 1 already): video.play() is called,
\* main.js:67-72
MetadataLoaded(i) ==
    /\ At(i, {"metadata"})
    /\ Goto(i, "play")
    /\ lastEvent' = "metadata"
    /\ UNCHANGED <<stream, srcObject, status, nextStream, liveTracks,
                   stopAsked, detVars, toggle, overlay>>

\* video.play() settles either way, then updateInfo: main.js:71-77
PlaySettles(i) ==
    /\ At(i, {"play"})
    /\ Goto(i, "done")
    /\ UpdateInfo
    /\ lastEvent' = "played"
    /\ UNCHANGED <<stream, srcObject, nextStream, liveTracks, stopAsked,
                   detVars, toggle>>

\* track.applyConstraints resolves (line 87 or line 95), then updateInfo,
\* main.js:106
ConstraintsApplied(i) ==
    /\ At(i, {"ac_ideal", "ac_exact"})
    /\ Goto(i, "done")
    /\ UpdateInfo
    /\ lastEvent' = "applied"
    /\ UNCHANGED <<stream, srcObject, nextStream, liveTracks, stopAsked,
                   detVars, toggle>>

\* applyConstraints(ideal) rejects and the stream is restarted at once
IdealRejectedRestarts(i) ==
    /\ At(i, {"ac_ideal"})
    /\ StopStream
    /\ Goto(i, "gum_ideal")
    /\ lastEvent' = "exact"
    /\ UNCHANGED <<srcObject, status, nextStream, stopAsked, detVars, toggle, overlay>>

\* applyConstraints(ideal) rejects: the retry with exact, main.js:92-98
IdealRejected(i) ==
    /\ At(i, {"ac_ideal"})
    /\ Goto(i, "ac_exact")
    /\ lastEvent' = "exact"
    /\ UNCHANGED <<stream, srcObject, status, nextStream, liveTracks,
                   stopAsked, detVars, toggle, overlay>>

\* applyConstraints(exact) rejects: return startStream(), main.js:99-103
ExactRejected(i) ==
    /\ At(i, {"ac_exact"})
    /\ StopStream
    /\ Goto(i, "gum_ideal")
    /\ lastEvent' = "restart"
    /\ UNCHANGED <<srcObject, status, nextStream, stopAsked, detVars, toggle, overlay>>

\* an orientationchange handler that re-acquires the camera
OrientationRestarts ==
    /\ Len(calls) < MaxCalls
    /\ StopStream
    /\ calls' = Append(calls, Call("gum_ideal", Null))
    /\ lastEvent' = "orientation"
    /\ UNCHANGED <<srcObject, status, nextStream, stopAsked, detVars, toggle,
                   overlay>>

\* orientationchange, main.js:149-151
OrientationChange ==
    /\ UpdateInfo
    /\ lastEvent' = "orientation"
    /\ UNCHANGED <<stream, srcObject, nextStream, liveTracks, calls,
                   stopAsked, detVars, toggle>>

\* window resize, main.js:154
Resize ==
    /\ UpdateCanvasSize
    /\ lastEvent' = "resize"
    /\ UNCHANGED <<stream, srcObject, status, nextStream, liveTracks, calls,
                   stopAsked, detVars, toggle>>

\* initModel returns and attachInferenceToggle adds the toggle's listener,
\* main.js:203-206
ModelLoads ==
    /\ ~modelLoaded
    /\ modelLoaded' = TRUE
    /\ lastEvent' = "model"
    /\ UNCHANGED <<checked, stream, srcObject, status, nextStream, liveTracks,
                   calls, stopAsked, overlay, detVars>>

\* let detector, main.js:160 -- null until the toggle's handler constructs
\* the Detector, which it does to call start()
Constructed == lastOp # "new"

\* the toggle's change handler, main.js:180-199; model is set whenever
\* the handler is attached
ToggleHandler ==
    IF srcObject = Null
      THEN checked' = FALSE /\ UNCHANGED detVars
      ELSE IF ~checked
             THEN checked' = TRUE /\ StartCall
             ELSE /\ checked' = FALSE
                  /\ IF Constructed THEN StopCall ELSE UNCHANGED detVars

\* the user flips the inference toggle; before attachInferenceToggle has
\* run nothing listens
ToggleChange ==
    /\ IF modelLoaded
         THEN ToggleHandler
         ELSE checked' = ~checked /\ UNCHANGED detVars
    /\ lastEvent' = "toggle"
    /\ UNCHANGED <<modelLoaded, stream, srcObject, status, nextStream,
                   liveTracks, calls, stopAsked, overlay>>

StreamNext ==
    \/ OrientationChange
    \/ Resize
    \/ ClickStart
    \/ ClickStop
    \/ PageHide
    \/ ChangeResolution
    \/ \E i \in 1..Len(calls) : GumResolves(i)
    \/ \E i \in 1..Len(calls) : GumIdealRejects(i)
    \/ \E i \in 1..Len(calls) : GumFallbackRejects(i)
    \/ \E i \in 1..Len(calls) : MetadataLoaded(i)
    \/ \E i \in 1..Len(calls) : PlaySettles(i)
    \/ \E i \in 1..Len(calls) : ConstraintsApplied(i)
    \/ \E i \in 1..Len(calls) : IdealRejected(i)
    \/ \E i \in 1..Len(calls) : ExactRejected(i)

\* ------------------------------------------------------ drawBoundingBoxes
\* The arguments are given as the decimal literals a caller writes: a
\* normalized coordinate as a count of tenths, a score as a count of
\* thousandths; a class id is a count of halves.  drawBoundingBoxes computes
\* on JavaScript Numbers, IEEE 754 doubles, and so does the model.
\*
\* A Number is held exactly, as a binary fixed-point value of five limbs in
\* base 2^15, least first: four limbs of fraction (60 bits) and one of
\* integer part.  Every double that occurs here is zero or lies between 1/16
\* and 2^15 and is therefore on that grid; the sum, difference or product of
\* two of them is formed exactly and then rounded to 53 significant bits,
\* ties to even, which is what the double operation returns.  No Number
\* here is negative.

\* base of a limb
Limb == 2^15

\* one half, in units of the highest fraction limb
HalfLimb == 2^14

\* significant bits of a double
Digits == 53

\* values on the grid
Numbers == [1..5 -> 0..(Limb - 1)]

\* the integer n
Whole(n) == <<0, 0, 0, 0, n>>

\* a * n exactly, n an integer below 2^15
Times[a \in Numbers, n \in 0..(Limb - 1)] ==
    LET p1 == a[1] * n
        p2 == a[2] * n + p1 \div Limb
        p3 == a[3] * n + p2 \div Limb
        p4 == a[4] * n + p3 \div Limb
        p5 == a[5] * n + p4 \div Limb
    IN  <<p1 % Limb, p2 % Limb, p3 % Limb, p4 % Limb, p5 % Limb>>

\* a + b exactly
Plus[a \in Numbers, b \in Numbers] ==
    LET s1 == a[1] + b[1]
        s2 == a[2] + b[2] + s1 \div Limb
        s3 == a[3] + b[3] + s2 \div Limb
        s4 == a[4] + b[4] + s3 \div Limb
        s5 == a[5] + b[5] + s4 \div Limb
    IN  <<s1 % Limb, s2 % Limb, s3 % Limb, s4 % Limb, s5 % Limb>>

\* a - b limb by limb, each limb less the borrow of the limb below; a limb
\* below zero borrows
Difference[a \in Numbers, b \in Numbers] ==
    LET d1 == a[1] - b[1]
        d2 == a[2] - b[2] - (IF d1 < 0 THEN 1 ELSE 0)
        d3 == a[3] - b[3] - (IF d2 < 0 THEN 1 ELSE 0)
        d4 == a[4] - b[4] - (IF d3 < 0 THEN 1 ELSE 0)
        d5 == a[5] - b[5] - (IF d4 < 0 THEN 1 ELSE 0)
    IN  <<d1, d2, d3, d4, d5>>

\* a - b exactly, for a >= b
Minus[a \in Numbers, b \in Numbers] ==
    LET d == Difference[a, b]
    IN  <<(d[1] + Limb) % Limb, (d[2] + Limb) % Limb, (d[3] + Limb) % Limb,
          (d[4] + Limb) % Limb, (d[5] + Limb) % Limb>>

\* a >= b
AtLeast(a, b) == Difference[a, b][5] >= 0

\* number of bits of the integer n
BitLen[n \in 0..(Limb - 1)] == IF n = 0 THEN 0 ELSE 1 + BitLen[n \div 2]

\* highest limb of a that is not zero (0 if none)
Top[a \in Numbers] ==
    IF a[5] # 0 THEN 5 ELSE IF a[4] # 0 THEN 4 ELSE IF a[3] # 0 THEN 3
    ELSE IF a[2] # 0 THEN 2 ELSE IF a[1] # 0 THEN 1 ELSE 0

\* number of significant bits of a
Bits[a \in Numbers] ==
    IF Top[a] = 0 THEN 0 ELSE 15 * (Top[a] - 1) + BitLen[a[Top[a]]]

\* 2^k units of the grid, k < 30
Unit(k) == IF k < 15 THEN <<2^k, 0, 0, 0, 0>> ELSE <<0, 2^(k - 15), 0, 0, 0>>

\* the double nearest an exact value, ties to even: a is the value cut to
\* the grid, above means that the value lies above a (by less than a unit)
Nearest[a \in Numbers, above \in BOOLEAN] ==
    LET k == Bits[a] - Digits
        low == a[1] + a[2] * Limb
        r == low % (2^k)
        odd == (low \div (2^k)) % 2 = 1
        half == 2^(k - 1)
        down == Minus[a, <<r % Limb, r \div Limb, 0, 0, 0>>]
        up == r > half \/ (r = half /\ (above \/ odd))
    IN  IF k <= 0 THEN a
        ELSE IF up THEN Plus[down, Unit(k)] ELSE down

\* n / d cut to the grid, and whether something is left over, d at most 1000
Quotient(n, d) ==
    LET r5 == n % d
        r4 == (r5 * Limb) % d
        r3 == (r4 * Limb) % d
        r2 == (r3 * Limb) % d
        r1 == (r2 * Limb) % d
    IN  [cut |-> <<(r2 * Limb) \div d, (r3 * Limb) \div d, (r4 * Limb) \div d,
                   (r5 * Limb) \div d, n \div d>>,
         left |-> r1 # 0]

\* the Number a decimal literal n/d denotes: the double nearest to it
Literal(n, d) == Nearest[Quotient(n, d).cut, Quotient(n, d).left]

\* a * n, a + b and a - b as JavaScript computes them
Mul(a, n) == Nearest[Times[a, n], FALSE]
Add(a, b) == Nearest[Plus[a, b], FALSE]
Sub(a, b) == Nearest[Minus[a, b], FALSE]

\* Math.round(a) and (a).toFixed(0): the nearest integer, a half goes up
Nearby(a) == a[5] + (IF a[4] >= HalfLimb THEN 1 ELSE 0)

\* the detections a batch is made of: a normalized box <<ymin, xmin, ymax,
\* xmax>> in tenths, one inside the frame and one along its edges, with a
\* score in thousandths, below, at or above the threshold
Detections ==
    {[box |-> <<1, 2, 5, 6>>, score |-> 950],
     [box |-> <<1, 2, 5, 6>>, score |-> 500],
     [box |-> <<0, 5, 10, 10>>, score |-> 700],
     [box |-> <<0, 5, 10, 10>>, score |-> 950]}

\* class id of a batch's first detection, in halves (3 and 1.5); the ids of
\* the detections after it go up by one half each
ClassIds == {6, 3}

\* the Number of a coordinate, a score and a class id
Coordinate(n) == Literal(n, 10)
Score(n) == Literal(n, 1000)
ClassId(n) == Literal(n, 2)

\* (a).toFixed(1), as the count of tenths it prints
ToFixed1(a) == Nearby(Times[a, 10])

\* part_000:176 -- `Class ${Math.round(classId)}: ${(score * 100).toFixed(1)}%`
\* as the class and the percentage's whole part and first decimal
Label(classId, score) ==
    [class |-> Nearby(classId),
     whole |-> ToFixed1(Mul(score, 100)) \div 10,
     tenth |-> ToFixed1(Mul(score, 100)) % 10]

\* a canvas call that draws no text
NoLabel == [class |-> -1, whole |-> 0, tenth |-> 0]

\* one call on the 2D context; fillRect's width is measureText(label).width
\* + 10, kept as its label and the 10
CanvasCall(op, x, y, w, h, label) ==
    [op |-> op, x |-> x, y |-> y, w |-> w, h |-> h, label |-> label]

\* part_000:159-184 with width and height exchanged
DetectionCallsSwapped(box, score, classId, size) ==
    LET x == Mul(box[2], size[2])
        y == Mul(box[1], size[1])
        width == Mul(Sub(box[4], box[2]), size[2])
        height == Mul(Sub(box[3], box[1]), size[1])
        labelY == IF ~AtLeast(Whole(20), y)
                    THEN Sub(y, Whole(5))
                    ELSE Add(Add(y, height), Whole(20))
    IN  << CanvasCall("strokeRect", x, y, width, height, NoLabel),
           CanvasCall("fillRect", x, Sub(labelY, Whole(20)), Whole(10),
                      Whole(25), Label(classId, score)),
           CanvasCall("fillText", Add(x, Whole(5)), Sub(labelY, Whole(2)),
                      Whole(0), Whole(0), Label(classId, score)) >>

\* drawBoundingBoxes, part_000:159-184 -- the calls for one detection that
\* passed the threshold
DetectionCalls(box, score, classId, size) ==
    LET ymin == box[1]
        xmin == box[2]
        ymax == box[3]
        xmax == box[4]
        x == Mul(xmin, size[1])
        y == Mul(ymin, size[2])
        width == Mul(Sub(xmax, xmin), size[1])
        height == Mul(Sub(ymax, ymin), size[2])
        labelY == IF ~AtLeast(Whole(20), y)
                    THEN Sub(y, Whole(5))
                    ELSE Add(Add(y, height), Whole(20))
    IN  << CanvasCall("strokeRect", x, y, width, height, NoLabel),
           CanvasCall("fillRect", x, Sub(labelY, Whole(20)), Whole(10),
                      Whole(25), Label(classId, score)),
           CanvasCall("fillText", Add(x, Whole(5)), Sub(labelY, Whole(2)),
                      Whole(0), Whole(0), Label(classId, score)) >>

\* drawBoundingBoxes, part_000:157-192 -- scores.forEach from index i on
RECURSIVE BatchCalls(_, _, _, _, _)
BatchCalls(boxes, scores, classes, i, size) ==
    IF i > Len(scores)
      THEN <<>>
      ELSE (IF AtLeast(scores[i], Score(Threshold))
              THEN DetectionCalls(boxes[i], scores[i], classes[i], size)
              ELSE <<>>)
           \o BatchCalls(boxes, scores, classes, i + 1, size)

\* drawBoundingBoxes without line 152
DrawWithoutClear(boxes, scores, classes) ==
    IF ~canvasContext
      THEN <<>>
      ELSE BatchCalls(boxes, scores, classes, 1, canvas)

\* drawBoundingBoxes, part_000:145-193 -- the canvas calls it makes
DrawBoundingBoxes(boxes, scores, classes) ==
    IF ~canvasContext
      THEN <<>>
      ELSE <<CanvasCall("clearRect", Whole(0), Whole(0), Whole(canvas[1]),
                        Whole(canvas[2]), NoLabel)>>
           \o BatchCalls(boxes, scores, classes, 1, canvas)

\* what the canvas shows after the calls cs from index i on, having shown
\* what before: clearRect over the whole canvas erases, other calls add
RECURSIVE Paint(_, _, _)
Paint(what, cs, i) ==
    IF i > Len(cs)
      THEN what
      ELSE Paint(IF cs[i].op = "clearRect"
                   THEN (IF <<cs[i].x, cs[i].y, cs[i].w, cs[i].h>>
                            = <<Whole(0), Whole(0), Whole(canvas[1]),
                                Whole(canvas[2])>>
                           THEN <<>>
                           ELSE what)
                   ELSE Append(what, cs[i]),
                 cs, i + 1)

\* a call of drawBoundingBoxes(boxes, scores, classes), part_000:128
DrawBatch ==
    /\ \E n \in 0..MaxDetections :
         \E dets \in [1..n -> Detections], first \in ClassIds :
            LET boxes == [i \in 1..n |-> dets[i].box]
                scores == [i \in 1..n |-> dets[i].score]
                classes == [i \in 1..n |-> first + i - 1]
                made == DrawBoundingBoxes(
                            [i \in 1..n |-> [j \in 1..4 |-> Coordinate(boxes[i][j])]],
                            [i \in 1..n |-> Score(scores[i])],
                            [i \in 1..n |-> ClassId(classes[i])])
            IN  /\ batch' = [boxes |-> boxes, scores |-> scores,
                             classes |-> classes, called |-> TRUE]
                /\ canvasOps' = made
                /\ ink' = Paint(ink, canvasOps', 1)
    /\ lastEvent' = "draw"
    /\ UNCHANGED <<canvas, stream, srcObject, status, nextStream, liveTracks,
                   calls, stopAsked, toggle, detVars>>

DrawNext ==
    \/ DrawBatch
    \/ Resize

\* ----------------------------------------------------------- specifications

\* the Detector on its own, for every way of constructing it
Init == DetectorInit /\ ~reuse /\ StreamInit

Next == DetectorNext

Spec == Init /\ [][Next]_vars

\* a scheduled callback fires (requestAnimationFrame / setTimeout run it)
Fires ==
    \E h \in pending :
        FireStopped(h) \/ TickNotReady(h) \/ TickPrepFails(h) \/ TickBegin(h)

\* a model.executeAsync call settles
Settles ==
    \E t \in inflight :
        TickRejects(t) \/ TickDecodeFails(t) \/ TickDrawFails(t) \/ TickSucceeds(t)

\* the Detector running without end, given a video element and a context
\* (main.js:188) in either scheduling mode: handles are reused, every
\* scheduled callback eventually fires and every model.executeAsync call
\* eventually settles
LiveInit == DetectorInit /\ video /\ canvasContext /\ reuse /\ StreamInit

LiveSpec == LiveInit /\ [][Next]_vars /\ WF_vars(Fires) /\ WF_vars(Settles)

\* the stream controller of main.js on its own; the Detector as main.js
\* constructs it (main.js:188-192), never started
StreamSpecInit ==
    DetectorInit /\ useRAF /\ video /\ canvasContext /\ ~reuse /\ StreamInit

StreamSpec == StreamSpecInit /\ [][StreamNext]_vars

\* main.js whole: the stream controller and the inference toggle; the
\* Detector is started and stopped, its ticks left out
ToggleNext ==
    \/ StreamNext
    \/ ModelLoads
    \/ ToggleChange

ToggleSpec == StreamSpecInit /\ [][ToggleNext]_vars

\* drawBoundingBoxes on its own: any batch, on a canvas of any size
DrawSpec == StreamSpecInit /\ [][DrawNext]_vars

\* ------------------------------------------------------------------ claims

\* the handle start() and loop() store for the Detector's scheduling mode
Handle == IF useRAF THEN _rafId ELSE _timerId

FailureOps == {"prepfail", "reject", "decodefail", "drawfail"}
TickOps == {"notready", "prepfail", "begin"}

\* the step is one of the Detector operations ops (the video element's own
\* state changes leave lastOp alone and change readyState)
Did(ops) == readyState' = readyState /\ lastOp' \in ops

\* the step scheduled exactly one callback and stored its handle
ScheduledOne ==
    /\ nextId' = nextId + 1
    /\ nextId \in pending'
    /\ Cardinality(pending' \ pending) = 1
    /\ Handle' = nextId

\* C1: at most one tick is in execution at any time: model.executeAsync is
\* never called while an earlier tick still awaits its own call.
C1_SingleTickInFlight == Cardinality(inflight) <= 1

\* C2: a tick that was in flight when stop() was called schedules no
\* successor when it completes, whatever start()/stop() calls came between.
C2_StoppedTickNeverReschedules ==
    [][\A t \in stoppedDuring :
          t \notin inflight' => pending' \subseteq pending]_vars

\* C3: once stop() has been called and start() not again (the running flag
\* is false), no step issues a new model.executeAsync call: callback firings
\* and model completions add no tick to those in flight.
C3_NoExecAfterStop ==
    [][~_running => inflight' \subseteq inflight]_vars

\* a callback left over from before stop() has fired, with a tick in flight
C3_Witness ==
    /\ lastOp = "stale"
    /\ prevOp = "stop"
    /\ ~_running
    /\ inflight # {}

\* every invocation of startStream / applyResolution has returned or thrown
AllSettled == \A i \in 1..Len(calls) : calls[i].pc \in {"done", "failed"}

\* C4: at most one camera stream has un-stopped tracks, and a stream with
\* un-stopped tracks is the one the variable stream holds.
C4_AtMostOneLiveStream ==
    /\ Cardinality(liveTracks) <= 1
    /\ \A s \in liveTracks : s = stream

\* C5: a Stop click or pagehide came last (no Start click or resolution
\* change since) and every pending operation has settled: then stream is
\* null and no acquired stream has un-stopped tracks.
C5_StoppedStaysStopped ==
    (stopAsked /\ AllSettled) => (stream = Null /\ liveTracks = {})

\* C6: after any tick completes, none of its tensors (its input, its
\* outputs) is left undisposed: every live tensor belongs to a tick that is
\* still awaiting the model.
C6_NoLeakAfterTick == \A b \in live : b[1] \in inflight

\* a tick whose draw threw has completed, all its tensors disposed, while
\* another tick still holds its input
C6_Witness ==
    /\ lastOp = "drawfail"
    /\ live # {}
    /\ inflight # {}

\* C7: a failure inside a tick does not escape loop(), does not change the
\* running flag, and when the flag is true the next tick is scheduled.
C7_FailureKeepsLoop ==
    [][Did(FailureOps) =>
          /\ ~uncaught'
          /\ _running' = _running
          /\ (_running => ScheduledOne)]_vars

\* model.executeAsync rejected and the loop scheduled the next tick
C7_Witness ==
    /\ lastOp = "reject"
    /\ _running
    /\ Handle \in pending
    /\ ~uncaught

\* C8: start() on a stopped Detector schedules exactly one callback; a
\* start() that follows with no stop() between (the flag is still true)
\* changes neither the flag nor a handle and schedules nothing.
C8_SecondStartIsNoOp ==
    [][Did({"start"}) =>
          IF _running
            THEN UNCHANGED <<_running, _rafId, _timerId, pending, nextId>>
            ELSE _running' /\ ScheduledOne]_vars

\* start() was called twice in a row on a new Detector: one callback pending
C8_Witness ==
    /\ lastOp = "start"
    /\ prevOp = "start"
    /\ _running
    /\ pending = {Handle}

\* C9: a tick that finds the video missing or readyState < 2 calls
\* model.executeAsync zero times, allocates no tensor, leaves the canvas
\* alone and, the loop still running, schedules the next tick.
C9_NotReadyTickSkips ==
    [][(Did(TickOps) /\ (~video \/ readyState < HaveCurrentData)) =>
          /\ inflight' = inflight
          /\ live' = live
          /\ surface' = surface
          /\ (_running' => ScheduledOne)]_vars

\* a tick ran with metadata only (readyState 1) and the next one is scheduled
C9_Witness ==
    /\ lastOp = "notready"
    /\ video
    /\ readyState = 1
    /\ Handle \in pending

\* C10: the handle of the Detector's scheduling mode is non-null iff the
\* running flag is true.
C10_HandleIffRunning == (Handle # Null) <=> _running

\* a tick that was in flight at stop() has completed: flag and handle stay clear
C10_Witness ==
    /\ lastOp = "success"
    /\ ~_running
    /\ Handle = Null


\* C11: a resize or orientationchange event calls neither getUserMedia nor
\* applyConstraints and leaves stream and every track as they were; resize
\* leaves the status text too.
C11_ResizeKeepsStream ==
    [][lastEvent' \in {"resize", "orientation"} =>
          /\ UNCHANGED <<stream, srcObject, liveTracks, nextStream, calls>>
          /\ (lastEvent' = "resize" => UNCHANGED status)]_vars

\* the device was turned with the camera on: the canvas took the new size
\* and the stream is still the one held
C11_Witness ==
    /\ lastEvent = "orientation"
    /\ stream # Null
    /\ stream \in liveTracks
    /\ canvas \in Sizes
    /\ status = "Actual"

\* indices of the canvas calls of the last drawBoundingBoxes call named op
CallsOf(op) == {k \in 1..Len(canvasOps) : canvasOps[k].op = op}

\* indices of the last batch whose score reaches the threshold
Survivors == {i \in 1..Len(batch.scores) : batch.scores[i] >= Threshold}

\* the index in the batch of the k-th detection that survives
Survivor(k) ==
    CHOOSE i \in Survivors : Cardinality({j \in Survivors : j <= i}) = k

\* C12: a drawBoundingBoxes call with a render context clears the whole
\* canvas exactly once, before anything else, and strokes exactly one
\* rectangle per score >= 0.7; afterwards the canvas shows what this call
\* drew and nothing older.
C12_ClearThenOnePerSurvivor ==
    (batch.called /\ canvasContext) =>
        /\ Len(canvasOps) >= 1
        /\ canvasOps[1] =
             CanvasCall("clearRect", Whole(0), Whole(0), Whole(canvas[1]),
                        Whole(canvas[2]), NoLabel)
        /\ CallsOf("clearRect") = {1}
        /\ Cardinality(CallsOf("strokeRect")) = Cardinality(Survivors)
        /\ ink = Tail(canvasOps)

\* scores = [0.5]: the canvas was cleared and nothing is drawn
C12_Witness ==
    /\ batch.called
    /\ batch.scores = <<500>>
    /\ canvasOps # <<>>
    /\ ink = <<>>

\* the distance between two Numbers
Gap(a, b) == IF AtLeast(a, b) THEN Minus[a, b] ELSE Minus[b, a]

\* the Number a is n/10 up to rounding: ten times a is within 2^-30 of n
Rounded(a, n) ==
    LET g == Gap(Times[a, 10], Whole(n))
    IN  g[5] = 0 /\ g[4] = 0 /\ g[3] = 0

\* the example of the claim: box (0.1, 0.2, 0.5, 0.6), score 0.95, class 3,
\* drawn on a 640x480 canvas
Example ==
    /\ batch.boxes = <<(<<1, 2, 5, 6>>)>>
    /\ batch.scores = <<950>>
    /\ batch.classes = <<6>>
    /\ canvas = <<640, 480>>

\* C13 as written: the k-th surviving detection, with box (ymin, xmin, ymax,
\* xmax), is stroked at exactly x = xmin*W, y = ymin*H, width = (xmax-xmin)*W,
\* height = (ymax-ymin)*H and labelled with its rounded class and its score
\* as a percentage to one decimal; the example gives one rectangle at 128,
\* 48, 256 x 192, "Class 3", "95.0%".
C13_ExactPixelBounds ==
    (batch.called /\ canvasContext) =>
        /\ \A k \in 1..Cardinality(Survivors) :
              LET box == batch.boxes[Survivor(k)]
                  rect == canvasOps[3 * k - 1]
              IN  /\ rect.op = "strokeRect"
                  /\ Times[rect.x, 10] = Whole(box[2] * canvas[1])
                  /\ Times[rect.y, 10] = Whole(box[1] * canvas[2])
                  /\ Times[rect.w, 10] = Whole((box[4] - box[2]) * canvas[1])
                  /\ Times[rect.h, 10] = Whole((box[3] - box[1]) * canvas[2])
        /\ Example =>
              /\ Len(canvasOps) = 4
              /\ canvasOps[2] =
                   CanvasCall("strokeRect", Whole(128), Whole(48), Whole(256),
                              Whole(192), NoLabel)
              /\ canvasOps[4].label = [class |-> 3, whole |-> 95, tenth |-> 0]

\* C13, amended: the k-th surviving detection is stroked at x = xmin*W, y =
\* ymin*H, width = (xmax-xmin)*W, height = (ymax-ymin)*H as double arithmetic
\* gives them, each within 2^-30 of the exact product, and labelled with its
\* rounded class and its score as a percentage to one decimal; the example
\* gives one rectangle at x = 128, y = 48, height = 192 and width 256 - 2^-45
\* (255.99999999999997), "Class 3", "95.0%".
C13_PixelBounds ==
    (batch.called /\ canvasContext) =>
        /\ \A k \in 1..Cardinality(Survivors) :
              LET box == batch.boxes[Survivor(k)]
                  rect == canvasOps[3 * k - 1]
                  text == canvasOps[3 * k + 1]
              IN  /\ rect.op = "strokeRect"
                  /\ Rounded(rect.x, box[2] * canvas[1])
                  /\ Rounded(rect.y, box[1] * canvas[2])
                  /\ Rounded(rect.w, (box[4] - box[2]) * canvas[1])
                  /\ Rounded(rect.h, (box[3] - box[1]) * canvas[2])
                  /\ text.op = "fillText"
                  /\ 2 * text.label.class
                       \in {batch.classes[Survivor(k)],
                            batch.classes[Survivor(k)] + 1}
                  /\ 10 * text.label.whole + text.label.tenth
                       = batch.scores[Survivor(k)]
        /\ Example =>
              /\ Len(canvasOps) = 4
              /\ canvasOps[2].op = "strokeRect"
              /\ canvasOps[2].x = Whole(128)
              /\ canvasOps[2].y = Whole(48)
              /\ canvasOps[2].h = Whole(192)
              /\ canvasOps[2].w # Whole(256)
              /\ Plus[canvasOps[2].w, Unit(15)] = Whole(256)
              /\ canvasOps[4].label = [class |-> 3, whole |-> 95, tenth |-> 0]

\* the example batch was drawn on a 640x480 canvas
C13_Witness ==
    /\ batch.called
    /\ Example
    /\ Len(ink) = 3

\* C14 as written: a resolution change made while a session is active ends
\* with that session replaced -- once the invocation has finished, the
\* tracks of the stream it found are stopped.
C14_ChangeReplacesSession ==
    \A i \in 1..Len(calls) :
        (calls[i].track # Null /\ calls[i].pc = "done")
            => calls[i].track \notin liveTracks

\* C14, amended: a stream session is created only by startStream's
\* getUserMedia; a resolution change made while a session is active keeps
\* that session when applyConstraints succeeds (ideal or exact), and stops it
\* to acquire another only when both attempts were rejected.
C14_SessionKeptUnlessBothFail ==
    [][/\ (liveTracks' \ liveTracks # {}) =>
              /\ lastEvent' = "acquired"
              /\ \E i \in 1..Len(calls) :
                    /\ calls[i].pc \in {"gum_ideal", "gum_fallback"}
                    /\ calls'[i].pc = "metadata"
       /\ (lastEvent' = "change" /\ stream # Null) =>
              UNCHANGED <<stream, liveTracks>>
       /\ lastEvent' \in {"applied", "exact"} =>
              UNCHANGED <<stream, liveTracks>>
       /\ lastEvent' = "restart" =>
              /\ stream' = Null
              /\ liveTracks' = liveTracks \ {stream}
              /\ \E i \in 1..Len(calls) :
                    /\ calls[i].pc = "ac_exact"
                    /\ calls'[i].pc = "gum_ideal"]_vars

\* a resolution change has finished with applyConstraints accepted: the
\* session it found is still the active one, its tracks running
C14_Witness ==
    /\ lastEvent = "applied"
    /\ \E i \in 1..Len(calls) :
          /\ calls[i].pc = "done"
          /\ calls[i].track # Null
          /\ calls[i].track = stream
          /\ stream \in liveTracks

\* C15: the running flag goes from true to false in a stop() step only, and
\* if from some point on the Detector is running (stop() is not called any
\* more) then ticks occur infinitely often, whatever the ticks do.
C15_RunsUntilStopped ==
    /\ [][(_running /\ ~_running') => Did({"stop"})]_vars
    /\ (<>[]_running) => []<><<Did(TickOps)>>_vars

\* a tick ran right after a tick that failed, the Detector still running
C15_Witness ==
    /\ reuse
    /\ _running
    /\ lastOp \in TickOps
    /\ prevOp \in FailureOps

\* C16: applyResolution falls back in a fixed order.  With a stream held it
\* starts at applyConstraints(ideal), else at startStream's getUserMedia;
\* applyConstraints(exact) is reached from a rejected applyConstraints(ideal)
\* only, and startStream (the held tracks stopped, getUserMedia next) from a
\* rejected applyConstraints(exact) only; an accepted applyConstraints ends
\* the invocation with stream, srcObject and every track as they were.
C16_FallbackOrder ==
    [][/\ lastEvent' = "change" =>
              /\ Len(calls') = Len(calls) + 1
              /\ calls'[Len(calls')].pc =
                     (IF stream = Null THEN "gum_ideal" ELSE "ac_ideal")
       /\ \A i \in 1..Len(calls) :
              /\ calls[i].pc = "ac_ideal" =>
                     calls'[i].pc \in {"ac_ideal", "ac_exact", "done"}
              /\ calls[i].pc = "ac_exact" =>
                     calls'[i].pc \in {"ac_exact", "gum_ideal", "done"}
              /\ (calls[i].pc # "ac_exact" /\ calls'[i].pc = "ac_exact") =>
                     (calls[i].pc = "ac_ideal" /\ lastEvent' = "exact")
              /\ (calls[i].pc = "ac_exact" /\ calls'[i].pc = "gum_ideal") =>
                     /\ lastEvent' = "restart"
                     /\ stream' = Null
                     /\ stream \notin liveTracks'
              /\ (calls[i].pc \in {"ac_ideal", "ac_exact"}
                    /\ calls'[i].pc = "done") =>
                     UNCHANGED <<stream, srcObject, liveTracks>>]_vars

\* an applyResolution that found a stream went through both applyConstraints
\* attempts and startStream: it now holds another stream than it found
C16_Witness ==
    \E i \in 1..Len(calls) :
        /\ calls[i].track # Null
        /\ calls[i].pc = "metadata"
        /\ stream # Null
        /\ stream # calls[i].track
        /\ calls[i].track \notin liveTracks

\* C17 as written: when both getUserMedia attempts of a startStream have
\* failed, stream is null.
C17_FailureLeavesNull == (lastEvent = "failed") => (stream = Null)

\* the steps in which drawBoundingBoxes is called
DrawOps == {"success", "drawfail"}

\* C18: once stop() has been called and start() not again, drawBoundingBoxes
\* touches the canvas at most once more: with the Detector stopped, a step
\* that drew is not followed by another step that draws (a start() or stop()
\* between the two would be the step before).
C18_OneDrawAfterStop ==
    (canvasContext /\ ~_running /\ lastOp \in DrawOps) => prevOp \notin DrawOps

\* C19: the toggle starts the Detector only when the model is loaded and a
\* camera stream is active (stream is held, its tracks running); so not
\* after a Stop click has stopped the stream.
C19_ToggleNeedsActiveStream ==
    [][(lastEvent' = "toggle" /\ ~_running /\ _running') =>
          /\ modelLoaded
          /\ stream # Null
          /\ stream \in liveTracks]_vars

====
